---- MODULE Spec2Model ----
(***************************************************************************)
(* A model of pproj3.py (UNICBot): the keyword loader, the input           *)
(* normaliser, the keyword router stem_chatbot, the completion client      *)
(* call_llama_api, the document pipeline handle_file_upload and the submit *)
(* handler of main.                                                        *)
(*                                                                         *)
(* A Python str is a sequence of chunks.  A chunk is one character ("a",   *)
(* "A", "!", " ", ...) or one fixed literal of the program (a canned reply,*)
(* the summary template, "API error: ").  Concatenation is \o, equality is *)
(* equality of sequences.                                                  *)
(*                                                                         *)
(* A call returns, raises, or ends in the tail call                        *)
(* `return call_llama_api(...)`; the three outcomes are the records        *)
(* Return(v), Raise(e) and TailCall(prompt).                               *)
(***************************************************************************)
EXTENDS Integers, Sequences, FiniteSets, TLC

VARIABLES pc, keyword_files, keywords, st_errors, chat_history, user_input,
          uploaded_file, net, requests, result, bytes_read, turn, completed

vars == <<pc, keyword_files, keywords, st_errors, chat_history, user_input,
          uploaded_file, net, requests, result, bytes_read, turn, completed>>

\* ------------------------------------------------------------------ bounds

\* longest user text
MaxLen == 3
\* longest decoded text document and most pages of a PDF
MaxDocLen == 2
\* submit actions of one session
MaxTurns == 2

\* ------------------------------------------------------------------ strings

MODEL_NAME == "llama3.2"

\* the characters of string.punctuation that occur in the texts of the model
string_punctuation == {"!", ","}

\* the characters str.strip() removes
whitespace == {" ", "\n"}

\* str.lower() on one character
lower(c) == CASE c = "A" -> "a" [] c = "B" -> "b" [] OTHER -> c

RECURSIVE str_lower(_)
str_lower(s) == IF s = <<>> THEN <<>> ELSE <<lower(Head(s))>> \o str_lower(Tail(s))

\* s.translate(str.maketrans('', '', deleted))
RECURSIVE str_translate_delete(_, _)
str_translate_delete(s, deleted) ==
    IF s = <<>> THEN <<>>
    ELSE IF Head(s) \in deleted THEN str_translate_delete(Tail(s), deleted)
    ELSE <<Head(s)>> \o str_translate_delete(Tail(s), deleted)

\* Python's `needle in hay` on strings
str_in(needle, hay) ==
    \E i \in 1..(Len(hay) - Len(needle) + 1) :
        SubSeq(hay, i, i + Len(needle) - 1) = needle

RECURSIVE str_lstrip(_)
str_lstrip(s) == IF s # <<>> /\ Head(s) \in whitespace THEN str_lstrip(Tail(s)) ELSE s

RECURSIVE str_rstrip(_)
str_rstrip(s) ==
    IF s # <<>> /\ s[Len(s)] \in whitespace THEN str_rstrip(SubSeq(s, 1, Len(s) - 1)) ELSE s

str_strip(s) == str_rstrip(str_lstrip(s))

\* s.split(',') as the set of its pieces (the loader only collects them)
RECURSIVE str_split(_, _)
str_split(s, sep) ==
    IF \A i \in 1..Len(s) : s[i] # sep THEN {s}
    ELSE LET i == CHOOSE j \in 1..Len(s) : s[j] = sep /\ \A k \in 1..(j - 1) : s[k] # sep
         IN  {SubSeq(s, 1, i - 1)} \cup str_split(SubSeq(s, i + 1, Len(s)), sep)

\* dict.get(key, default); the empty dict is <<>>
dict_get(obj, key, default) == IF key \in DOMAIN obj THEN obj[key] ELSE default

\* ------------------------------------------------------------------ outcomes of a call

Return(v) == [op |-> "return", value |-> v]
Raise(e) == [op |-> "raise", value |-> <<e>>]
TailCall(prompt) == [op |-> "call_llama_api", value |-> prompt]

\* ------------------------------------------------------------------ call_llama_api

NO_RESPONSE == <<"No response from model.">>
API_ERROR == <<"API error: ">>

\* the body of the POST of line 24
Request(prompt) ==
    [url |-> "/chat/completions", model |-> MODEL_NAME,
     messages |-> <<[role |-> "user", content |-> prompt]>>]

\* Response.raise_for_status(): HTTPError for 4xx and 5xx
raise_for_status(status) == 400 <= status /\ status < 600

\* what the endpoint may do with one request: the connection fails, or a response
\* arrives with a status and a body.  A body that is no JSON makes response.json()
\* raise; json_error tells whether the installed requests raises its own
\* JSONDecodeError (a RequestException) or a plain ValueError.
ConnectionFailure ==
    [kind |-> "ConnectionError", status |-> 0, body |-> 0, json_error |-> "none"]
Response(status, body) ==
    [kind |-> "response", status |-> status, body |-> body, json_error |-> "none"]
NotJson(status, error) ==
    [kind |-> "response", status |-> status, body |-> 0, json_error |-> error]

\* JSON bodies, by number: the expected shape and the ways of lacking it
Bodies ==
    <<  [choices |-> <<[message |-> [content |-> <<"4">>]]>>],
        <<>>,
        [choices |-> <<>>],
        [choices |-> << <<>> >>],
        [choices |-> <<[message |-> <<>>]>>] >>

Statuses == {200, 201, 304, 404, 500}

NetOutcomes ==
    {ConnectionFailure}
    \cup {Response(s, b) : s \in Statuses, b \in DOMAIN Bodies}
    \cup {NotJson(s, e) : s \in Statuses,
                          e \in {"requests.exceptions.JSONDecodeError", "ValueError"}}

call_llama_api_no_except(prompt, outcome) ==
    IF outcome.kind = "ConnectionError" THEN Raise("ConnectionError")
    ELSE IF raise_for_status(outcome.status) THEN Raise("HTTPError")
    ELSE IF outcome.json_error # "none" THEN Raise(outcome.json_error)
    ELSE LET choices == dict_get(Bodies[outcome.body], "choices", << <<>> >>)
         IN  IF Len(choices) = 0 THEN Raise("IndexError")
             ELSE Return(dict_get(dict_get(choices[1], "message", <<>>),
                                  "content", NO_RESPONSE))

\* lines 23-28, given what the endpoint does with the request
call_llama_api(prompt, outcome) ==
    IF outcome.kind = "ConnectionError"
    THEN Return(API_ERROR \o <<"ConnectionError">>)
    ELSE IF raise_for_status(outcome.status)
    THEN Return(API_ERROR \o <<"HTTPError">>)
    ELSE IF outcome.json_error = "requests.exceptions.JSONDecodeError"
    THEN Return(API_ERROR \o <<"JSONDecodeError">>)
    ELSE IF outcome.json_error # "none"
    THEN Raise(outcome.json_error)
    ELSE LET choices == dict_get(Bodies[outcome.body], "choices", << <<>> >>)
         IN  IF Len(choices) = 0 THEN Raise("IndexError")
             ELSE Return(dict_get(dict_get(choices[1], "message", <<>>),
                                  "content", NO_RESPONSE))

\* the value of a call whose last statement may be `return call_llama_api(...)`
Complete(step, outcome) ==
    IF step.op = "call_llama_api" THEN call_llama_api(step.value, outcome) ELSE step

\* the requests a call issues: one per call of call_llama_api, none otherwise
Posts(step) == IF step.op = "call_llama_api" THEN <<Request(step.value)>> ELSE <<>>

\* ------------------------------------------------------------------ keyword matching

clean_input(text) == str_lower(str_translate_delete(text, string_punctuation))

is_keyword_match_raw(text, keyword_set) ==
    \E keyword \in keyword_set : str_in(keyword, text)

is_keyword_match(text, keyword_set) ==
    LET clean_input_text == clean_input(text)
    IN  \E keyword \in keyword_set : str_in(keyword, clean_input_text)

is_greeting_query(text, greeting_keywords) == is_keyword_match(text, greeting_keywords)
is_exit_query(text, exit_keywords) == is_keyword_match(text, exit_keywords)
is_stem_query(text, stem_keywords) == is_keyword_match(text, stem_keywords)
is_appointment_query(text, appointment_keywords) ==
    is_keyword_match(text, appointment_keywords)
is_reschedule_query(text, reschedule_keywords) ==
    is_keyword_match(text, reschedule_keywords)

\* ------------------------------------------------------------------ stem_chatbot

GREETING_REPLY == <<"Hello! How can I assist you today?">>
RESCHEDULE_REPLY ==
    <<"To make changes to your appointment, please reach out directly by emailing or calling our team: ... Email: info@unicgate.org ... Phone: +1 346-471-4390 ...">>
APPOINTMENT_REPLY ==
    <<"You can check my available slots and schedule an appointment using this link: [Schedule Appointment](https://cal.com/tankyash1)">>
EXIT_REPLY == <<"Goodbye! See you next time.">>
FALLBACK_REPLY ==
    <<"Sorry, I can only answer STEM-related questions or assist with appointment scheduling. ...">>

stem_chatbot_appointment_first(text, stem_keywords, greeting_keywords, exit_keywords, appointment_keywords, reschedule_keywords) ==
    IF is_greeting_query(text, greeting_keywords) THEN Return(GREETING_REPLY)
    ELSE IF is_appointment_query(text, appointment_keywords) THEN Return(APPOINTMENT_REPLY)
    ELSE IF is_reschedule_query(text, reschedule_keywords) THEN Return(RESCHEDULE_REPLY)
    ELSE IF is_stem_query(text, stem_keywords) THEN TailCall(text)
    ELSE IF is_exit_query(text, exit_keywords) THEN Return(EXIT_REPLY)
    ELSE Return(FALLBACK_REPLY)

stem_chatbot_sends_clean(text, stem_keywords, greeting_keywords, exit_keywords, appointment_keywords, reschedule_keywords) ==
    IF is_greeting_query(text, greeting_keywords) THEN Return(GREETING_REPLY)
    ELSE IF is_reschedule_query(text, reschedule_keywords) THEN Return(RESCHEDULE_REPLY)
    ELSE IF is_appointment_query(text, appointment_keywords) THEN Return(APPOINTMENT_REPLY)
    ELSE IF is_stem_query(text, stem_keywords) THEN TailCall(clean_input(text))
    ELSE IF is_exit_query(text, exit_keywords) THEN Return(EXIT_REPLY)
    ELSE Return(FALLBACK_REPLY)

\* lines 97-121
stem_chatbot(text, stem_keywords, greeting_keywords, exit_keywords, appointment_keywords, reschedule_keywords) ==
    IF is_greeting_query(text, greeting_keywords) THEN Return(GREETING_REPLY)
    ELSE IF is_reschedule_query(text, reschedule_keywords) THEN Return(RESCHEDULE_REPLY)
    ELSE IF is_appointment_query(text, appointment_keywords) THEN Return(APPOINTMENT_REPLY)
    ELSE IF is_stem_query(text, stem_keywords) THEN TailCall(text)
    ELSE IF is_exit_query(text, exit_keywords) THEN Return(EXIT_REPLY)
    ELSE Return(FALLBACK_REPLY)

\* ------------------------------------------------------------------ inputs

Categories == {"stem", "greeting", "exit", "appointment", "reschedule"}

TextChars == {"a", "b", "A", "!"}

RECURSIVE SeqsUpTo(_, _)
SeqsUpTo(S, n) ==
    IF n = 0 THEN {<<>>}
    ELSE LET shorter == SeqsUpTo(S, n - 1)
         IN  shorter \cup {Append(s, c) : s \in shorter, c \in S}

Texts == SeqsUpTo(TextChars, MaxLen)

\* the keyword sets a category may hold
KeywordSets == { {}, {<<"a">>}, {<<"b", "a">>, <<"b", "b">>} }

\* the outcomes tried where the endpoint is not what is examined
NetSample ==
    {ConnectionFailure, Response(200, 1), Response(200, 3), Response(404, 1)}

NoFile == [name |-> "", type |-> "", bytes |-> 0]
NoResult == [op |-> "none", value |-> <<>>]

\* ------------------------------------------------------------------ stem_chatbot alone

InitChat ==
    /\ pc = "stem_chatbot"
    /\ user_input \in Texts
    /\ keywords \in [Categories -> KeywordSets]
    /\ keyword_files = <<>>
    /\ st_errors = {}
    /\ chat_history = <<>>
    /\ uploaded_file = NoFile
    /\ net = ConnectionFailure
    /\ requests = <<>>
    /\ result = NoResult
    /\ bytes_read = FALSE
    /\ turn = 0
    /\ completed = 0

CallStemChatbot ==
    /\ pc = "stem_chatbot"
    /\ LET step == stem_chatbot(user_input, keywords["stem"], keywords["greeting"],
                                keywords["exit"], keywords["appointment"],
                                keywords["reschedule"])
       IN  /\ requests' = Posts(step)
           /\ \E outcome \in NetSample :
                /\ step.op # "call_llama_api" => outcome = net
                /\ net' = outcome
                /\ result' = Complete(step, outcome)
    /\ pc' = "done"
    /\ UNCHANGED <<keyword_files, keywords, st_errors, chat_history, user_input,
                   uploaded_file, bytes_read, turn, completed>>

NextChat == CallStemChatbot

SpecChat == InitChat /\ [][NextChat]_vars

\* ------------------------------------------------------------------ call_llama_api alone

InitClient ==
    /\ pc = "call_llama_api"
    /\ user_input \in Texts
    /\ keywords = <<>>
    /\ keyword_files = <<>>
    /\ st_errors = {}
    /\ chat_history = <<>>
    /\ uploaded_file = NoFile
    /\ net = ConnectionFailure
    /\ requests = <<>>
    /\ result = NoResult
    /\ bytes_read = FALSE
    /\ turn = 0
    /\ completed = 0

CallLlamaApi ==
    /\ pc = "call_llama_api"
    /\ \E outcome \in NetOutcomes :
         /\ net' = outcome
         /\ result' = call_llama_api(user_input, outcome)
    /\ requests' = <<Request(user_input)>>
    /\ pc' = "done"
    /\ UNCHANGED <<keyword_files, keywords, st_errors, chat_history, user_input,
                   uploaded_file, bytes_read, turn, completed>>

NextClient == CallLlamaApi

SpecClient == InitClient /\ [][NextClient]_vars

\* ------------------------------------------------------------------ documents

UNSUPPORTED_MESSAGE == <<"Unsupported file type. Please upload a PDF or text file.">>
SUMMARY_TEMPLATE == <<"Please provide a summary for the following content:\n\n">>

\* the chunks of a document's text; a document may hold the unsupported-type message
DocChars == {"A", "B", UNSUPPORTED_MESSAGE[1]}

\* the bytes of an upload: what PyPDF2 makes of them and what decoding them as UTF-8 gives
PdfBytes(pages) == [pdf_ok |-> TRUE, pages |-> pages, utf8_ok |-> FALSE, text |-> <<>>]
TextBytes(text) == [pdf_ok |-> FALSE, pages |-> <<>>, utf8_ok |-> TRUE, text |-> text]
GarbageBytes == [pdf_ok |-> FALSE, pages |-> <<>>, utf8_ok |-> FALSE, text |-> <<>>]

UploadBytes ==
    {PdfBytes(pages) : pages \in SeqsUpTo(SeqsUpTo(DocChars, 1), MaxDocLen)}
    \cup {TextBytes(text) : text \in SeqsUpTo(DocChars, MaxDocLen)}
    \cup {GarbageBytes}

MediaTypes == {"application/pdf", "text/plain", "image/png"}

Uploads == [name : {"doc"}, type : MediaTypes, bytes : UploadBytes]

\* lines 73-76: the pages' texts in page order, nothing between them
RECURSIVE concat_pages(_)
concat_pages(pages) ==
    IF pages = <<>> THEN <<>> ELSE Head(pages) \o concat_pages(Tail(pages))

\* lines 71-76; PdfReader raises on bytes that are no PDF
extract_pdf_text(file) ==
    IF ~file.bytes.pdf_ok THEN Raise("PdfReadError")
    ELSE Return(concat_pages(file.bytes.pages))

\* line 89: uploaded_file.read().decode("utf-8")
read_decode_utf8(file) ==
    IF ~file.bytes.utf8_ok THEN Raise("UnicodeDecodeError")
    ELSE Return(file.bytes.text)

generate_summary_without_template(content) == TailCall(content)

\* lines 79-82
generate_summary_with_model(content) == TailCall(SUMMARY_TEMPLATE \o content)

\* line 94, reached unless the extraction raised
summary_of(extracted) ==
    IF extracted.op = "raise" THEN extracted ELSE generate_summary_with_model(extracted.value)

handle_file_upload_decodes_any(file) ==
    IF file.type = "application/pdf"
    THEN [read |-> TRUE] @@ summary_of(extract_pdf_text(file))
    ELSE [read |-> TRUE] @@ summary_of(read_decode_utf8(file))

\* lines 85-94; read tells whether the upload's bytes were read
handle_file_upload(file) ==
    IF file.type = "application/pdf"
    THEN [read |-> TRUE] @@ summary_of(extract_pdf_text(file))
    ELSE IF file.type = "text/plain"
    THEN [read |-> TRUE] @@ summary_of(read_decode_utf8(file))
    ELSE [read |-> FALSE] @@ Return(UNSUPPORTED_MESSAGE)

\* a call's outcome without the bookkeeping fields
Outcome(step) == [op |-> step.op, value |-> step.value]

\* ------------------------------------------------------------------ handle_file_upload alone

InitUpload ==
    /\ pc = "handle_file_upload"
    /\ uploaded_file \in Uploads
    /\ user_input = <<>>
    /\ keywords = <<>>
    /\ keyword_files = <<>>
    /\ st_errors = {}
    /\ chat_history = <<>>
    /\ net = ConnectionFailure
    /\ requests = <<>>
    /\ result = NoResult
    /\ bytes_read = FALSE
    /\ turn = 0
    /\ completed = 0

CallHandleFileUpload ==
    /\ pc = "handle_file_upload"
    /\ LET step == handle_file_upload(uploaded_file)
       IN  /\ requests' = Posts(step)
           /\ bytes_read' = step.read
           /\ \E outcome \in NetSample :
                /\ step.op # "call_llama_api" => outcome = net
                /\ net' = outcome
                /\ result' = Complete(Outcome(step), outcome)
    /\ pc' = "done"
    /\ UNCHANGED <<keyword_files, keywords, st_errors, chat_history, user_input,
                   uploaded_file, turn, completed>>

NextUpload == CallHandleFileUpload

SpecUpload == InitUpload /\ [][NextUpload]_vars

\* ------------------------------------------------------------------ load_keywords

\* a keyword file: absent, present but not readable, or present with its lines
MissingFile == [exists |-> FALSE, readable |-> FALSE, lines |-> <<>>]
UnreadableFile == [exists |-> TRUE, readable |-> FALSE, lines |-> <<>>]
ReadableFile(lines) == [exists |-> TRUE, readable |-> TRUE, lines |-> lines]

\* line 36: the stripped, lowercased, non-empty pieces of one line
line_keywords(line) ==
    {str_lower(str_strip(keyword)) :
        keyword \in {piece \in str_split(line, ",") : str_strip(piece) # <<>>}}

\* lines 31-39; open() raises FileNotFoundError for an absent file, which is caught and
\* reported with st.error, and another OSError (PermissionError) for an unreadable one
load_keywords(file) ==
    IF ~file.exists
    THEN [st_error |-> TRUE] @@ Return({})
    ELSE IF ~file.readable
    THEN [st_error |-> FALSE] @@ Raise("PermissionError")
    ELSE [st_error |-> FALSE]
         @@ Return(UNION {line_keywords(file.lines[i]) : i \in DOMAIN file.lines})

\* the order of the five loads, lines 133-137
LoadOrder == <<"stem", "greeting", "exit", "appointment", "reschedule">>

KeywordFiles ==
    { MissingFile, UnreadableFile,
      ReadableFile(<< <<"a", ",", " ", "B", "a", "\n">>, <<",", " ", "\n">> >>),
      ReadableFile(<< <<"b", "b">> >>) }

\* lines 133-137: the loads up to the first that raises
LoadKeywords ==
    /\ pc = "start"
    /\ LET loaded == [n \in DOMAIN LoadOrder |-> load_keywords(keyword_files[LoadOrder[n]])]
           raising == {n \in DOMAIN LoadOrder : loaded[n].op = "raise"}
           reached(n) == \A m \in raising : n <= m
       IN  /\ st_errors' = {LoadOrder[n] : n \in {m \in DOMAIN LoadOrder :
                                                     reached(m) /\ loaded[m].st_error}}
           /\ IF raising = {}
              THEN /\ keywords' = [c \in Categories |->
                                     loaded[CHOOSE n \in DOMAIN LoadOrder : LoadOrder[n] = c].value]
                   /\ result' = Return(<<>>)
                   /\ pc' = "form"
              ELSE /\ keywords' = <<>>
                   /\ result' = Outcome(loaded[CHOOSE n \in raising : reached(n)])
                   /\ pc' = "start"
    /\ UNCHANGED <<keyword_files, chat_history, user_input, uploaded_file, net, requests,
                   bytes_read, turn, completed>>

InitLoad ==
    /\ pc = "start"
    /\ keyword_files \in [Categories -> KeywordFiles]
    /\ keywords = <<>>
    /\ st_errors = {}
    /\ chat_history = <<>>
    /\ user_input = <<>>
    /\ uploaded_file = NoFile
    /\ net = ConnectionFailure
    /\ requests = <<>>
    /\ result = NoResult
    /\ bytes_read = FALSE
    /\ turn = 0
    /\ completed = 0

NextLoad == LoadKeywords

SpecLoad == InitLoad /\ [][NextLoad]_vars

\* ------------------------------------------------------------------ main: one session

\* the keyword files of the sessions examined
SessionFiles ==
    { [c \in Categories |->
          CASE c = "stem" -> ReadableFile(<< <<"a", ",", " ", "B", "a", "\n">> >>)
            [] c = "greeting" -> ReadableFile(<< <<"b", "b">> >>)
            [] OTHER -> MissingFile],
      [c \in Categories |->
          CASE c = "stem" -> ReadableFile(<< <<"a">> >>)
            [] c = "exit" -> UnreadableFile
            [] OTHER -> MissingFile] }

\* what the form may hold at a submit
FormTexts == {<<>>, <<"A", "!">>, <<"b", "b">>, <<"b">>}
FormUploads ==
    { NoFile,
      [name |-> "doc", type |-> "application/pdf", bytes |-> PdfBytes(<< <<"A">>, <<"B">> >>)],
      [name |-> "doc", type |-> "application/pdf", bytes |-> GarbageBytes],
      [name |-> "doc", type |-> "image/png", bytes |-> GarbageBytes] }

Init ==
    /\ pc = "start"
    /\ keyword_files \in SessionFiles
    /\ keywords = <<>>
    /\ st_errors = {}
    /\ chat_history = <<>>
    /\ user_input = <<>>
    /\ uploaded_file = NoFile
    /\ net = ConnectionFailure
    /\ requests = <<>>
    /\ result = NoResult
    /\ bytes_read = FALSE
    /\ turn = 0
    /\ completed = 0

UserMessage(text) == [role |-> "user", message |-> text]
BotMessage(text) == [role |-> "bot", message |-> text]

\* the request the pending call of call_llama_api has posted
PendingPrompt == requests[Len(requests)].request.messages[1].content

\* lines 151-161 up to the POST of call_llama_api, or to the end when none is made
Submit ==
    /\ pc = "form"
    /\ turn < MaxTurns
    /\ turn' = turn + 1
    /\ \E file \in FormUploads, text \in FormTexts :
         /\ uploaded_file' = file
         /\ user_input' = text
         /\ LET step ==
                  IF file # NoFile THEN handle_file_upload(file)
                  ELSE IF text # <<>>
                  THEN [read |-> FALSE]
                       @@ stem_chatbot(text, keywords["stem"], keywords["greeting"],
                                       keywords["exit"], keywords["appointment"],
                                       keywords["reschedule"])
                  ELSE [read |-> FALSE] @@ Return(<<>>)
                entered ==
                  IF file = NoFile /\ text # <<>>
                  THEN Append(chat_history, UserMessage(text))
                  ELSE chat_history
            IN  /\ bytes_read' = step.read
                /\ requests' = requests \o [n \in DOMAIN Posts(step) |->
                                               [turn |-> turn + 1, request |-> Posts(step)[n]]]
                /\ IF step.op = "call_llama_api"
                   THEN /\ chat_history' = entered
                        /\ pc' = "awaiting"
                        /\ UNCHANGED <<result, completed>>
                   ELSE /\ result' = Outcome(step)
                        /\ completed' = completed + 1
                        /\ pc' = "start"
                        /\ chat_history' =
                             IF step.op = "raise" THEN entered
                             ELSE IF file # NoFile
                             THEN chat_history
                                  \o <<UserMessage(<<"Uploaded file: ", file.name>>),
                                       BotMessage(step.value)>>
                             ELSE IF text # <<>>
                             THEN Append(entered, BotMessage(step.value))
                             ELSE entered
    /\ UNCHANGED <<keyword_files, keywords, st_errors, net>>

ReceiveResponse_retries ==
    /\ pc = "awaiting"
    /\ \E outcome \in NetSample :
         LET reply == call_llama_api(PendingPrompt, outcome)
             failed == outcome.kind = "ConnectionError" \/ raise_for_status(outcome.status)
             first == \A n \in 1..(Len(requests) - 1) : requests[n].turn # turn
         IN  /\ net' = outcome
             /\ result' = reply
             /\ IF failed /\ first
                THEN /\ requests' = Append(requests, requests[Len(requests)])
                     /\ UNCHANGED <<pc, completed, chat_history>>
                ELSE /\ pc' = "start"
                     /\ completed' = completed + 1
                     /\ requests' = requests
                     /\ chat_history' =
                          IF reply.op = "raise" THEN chat_history
                          ELSE IF uploaded_file # NoFile
                          THEN chat_history
                               \o <<UserMessage(<<"Uploaded file: ", uploaded_file.name>>),
                                    BotMessage(reply.value)>>
                          ELSE Append(chat_history, BotMessage(reply.value))
    /\ UNCHANGED <<keyword_files, keywords, st_errors, user_input, uploaded_file,
                   bytes_read, turn>>

\* the endpoint answers or fails: call_llama_api finishes (lines 24-28) and the handler
\* with it (lines 154-156 or 160-161); a fault ends the run before the appends
ReceiveResponse ==
    /\ pc = "awaiting"
    /\ \E outcome \in NetSample :
         LET reply == call_llama_api(PendingPrompt, outcome)
         IN  /\ net' = outcome
             /\ result' = reply
             /\ chat_history' =
                  IF reply.op = "raise" THEN chat_history
                  ELSE IF uploaded_file # NoFile
                  THEN chat_history
                       \o <<UserMessage(<<"Uploaded file: ", uploaded_file.name>>),
                            BotMessage(reply.value)>>
                  ELSE Append(chat_history, BotMessage(reply.value))
    /\ pc' = "start"
    /\ completed' = completed + 1
    /\ UNCHANGED <<keyword_files, keywords, st_errors, user_input, uploaded_file,
                   requests, bytes_read, turn>>

Next == LoadKeywords \/ Submit \/ ReceiveResponse

Spec == Init /\ [][Next]_vars

\* ------------------------------------------------------------------ the specification's words

\* normalize: ASCII punctuation removed, then lowercased
Normalized(text) ==
    LET kept == SelectSeq(text, LAMBDA c : c \notin string_punctuation)
    IN  [i \in 1..Len(kept) |-> lower(kept[i])]

\* keyword occurs in text as a contiguous substring
Occurs(keyword, text) ==
    \E p \in 0..Len(text) :
        /\ p + Len(keyword) <= Len(text)
        /\ text = SubSeq(text, 1, p) \o keyword \o SubSeq(text, p + Len(keyword) + 1, Len(text))

\* the category's keyword set matches the submitted text
Matching(category) ==
    \E keyword \in keywords[category] : Occurs(keyword, Normalized(user_input))

PriorityOrder == <<"greeting", "reschedule", "appointment", "stem", "exit">>

CannedReply(category) ==
    CASE category = "greeting" -> GREETING_REPLY
      [] category = "reschedule" -> RESCHEDULE_REPLY
      [] category = "appointment" -> APPOINTMENT_REPLY
      [] category = "exit" -> EXIT_REPLY

CannedReplies ==
    {GREETING_REPLY, RESCHEDULE_REPLY, APPOINTMENT_REPLY, EXIT_REPLY, FALLBACK_REPLY}

StemQuestion ==
    /\ Matching("stem")
    /\ ~Matching("greeting") /\ ~Matching("reschedule") /\ ~Matching("appointment")

\* ------------------------------------------------------------------ claims on stem_chatbot

\* C1: the reply is that of the first category, in the order Greeting, Reschedule,
\* Appointment, StemQuestion, Exit, whose keyword set matches the text, whatever
\* later categories match as well; for StemQuestion the reply is what the Model
\* Client gives for the text.
C1_FirstMatchWins ==
    pc = "done" =>
        \A n \in 1..Len(PriorityOrder) :
            (/\ Matching(PriorityOrder[n])
             /\ \A m \in 1..(n - 1) : ~Matching(PriorityOrder[m]))
            => IF PriorityOrder[n] = "stem"
               THEN result = call_llama_api(user_input, net)
               ELSE result = Return(CannedReply(PriorityOrder[n]))

\* reschedule, appointment and stem keywords all occur and the reschedule text is the reply
C1_Witness ==
    /\ pc = "done"
    /\ ~Matching("greeting")
    /\ Matching("reschedule") /\ Matching("appointment") /\ Matching("stem")
    /\ result = Return(RESCHEDULE_REPLY)

\* C5: the Model Client is called exactly when the intent is StemQuestion, once, with
\* the text as submitted, and what it gives (a reply or a fault) is the outcome of
\* stem_chatbot; for every other intent no request is made and the reply is one of
\* the five constant texts.
C5_ClientOnlyForStem ==
    pc = "done" =>
        IF StemQuestion
        THEN /\ requests = <<Request(user_input)>>
             /\ result = call_llama_api(user_input, net)
        ELSE /\ requests = <<>>
             /\ result.op = "return"
             /\ result.value \in CannedReplies

\* a stem question whose raw text differs from its normalized form was forwarded raw
C5_Witness ==
    /\ pc = "done"
    /\ StemQuestion
    /\ Normalized(user_input) # user_input
    /\ requests = <<Request(user_input)>>
    /\ result = Return(<<"4">>)

\* C6: the fallback text is returned, with no request made, iff none of the five
\* keyword sets matches the normalized text.
C6_UnknownIffNoMatch ==
    pc = "done" =>
        ((result = Return(FALLBACK_REPLY) /\ requests = <<>>)
            <=> \A category \in Categories : ~Matching(category))

\* a text of several characters met non-empty keyword sets and matched none of them
C6_Witness ==
    /\ pc = "done"
    /\ result = Return(FALLBACK_REPLY)
    /\ Len(user_input) >= 2
    /\ \A category \in Categories : keywords[category] # {}

\* ------------------------------------------------------------------ claims on call_llama_api

HasExpectedShape(body) ==
    /\ "choices" \in DOMAIN body
    /\ Len(body.choices) >= 1
    /\ "message" \in DOMAIN body.choices[1]
    /\ "content" \in DOMAIN body.choices[1].message

SuccessStatus(status) == 200 <= status /\ status <= 299

StartsWithApiError(r) ==
    /\ r.op = "return"
    /\ Len(r.value) >= 1
    /\ SubSeq(r.value, 1, Len(API_ERROR)) = API_ERROR

\* C2: on a 2xx response whose JSON body lacks the expected shape the placeholder
\* "No response from model." is returned and nothing is raised.
C2_PlaceholderOnAnyShape ==
    (/\ pc = "done"
     /\ net.kind = "response" /\ SuccessStatus(net.status) /\ net.json_error = "none"
     /\ ~HasExpectedShape(Bodies[net.body]))
    => result = Return(NO_RESPONSE)

\* C3 as stated: a network failure or any non-2xx status gives a returned string that
\* starts with "API error: ".
C3_ApiErrorOnNon2xx ==
    (/\ pc = "done"
     /\ (net.kind = "ConnectionError" \/ ~SuccessStatus(net.status)))
    => StartsWithApiError(result)

\* C3 amended: a network failure or a 4xx or 5xx status gives a returned string that
\* starts with "API error: ", and nothing is raised.
C3_ApiErrorOnFailure ==
    (/\ pc = "done"
     /\ (net.kind = "ConnectionError" \/ (400 <= net.status /\ net.status <= 599)))
    => StartsWithApiError(result)

\* the endpoint answered 404 and the caller got the error text as an ordinary return
C3_Witness ==
    /\ pc = "done"
    /\ net.kind = "response" /\ net.status = 404
    /\ result = Return(API_ERROR \o <<"HTTPError">>)

\* ------------------------------------------------------------------ claims on handle_file_upload

SupportedType(file) == file.type \in {"application/pdf", "text/plain"}

\* the declared type is supported and the bytes are what the type says
Extractable(file) ==
    \/ file.type = "application/pdf" /\ file.bytes.pdf_ok
    \/ file.type = "text/plain" /\ file.bytes.utf8_ok

\* the Document Extractor's text: the pages joined with no separator, or the decoded text
RECURSIVE Joined(_, _)
Joined(pages, n) == IF n = 0 THEN <<>> ELSE Joined(pages, n - 1) \o pages[n]

ExtractedText(file) ==
    IF file.type = "application/pdf"
    THEN Joined(file.bytes.pages, Len(file.bytes.pages))
    ELSE file.bytes.text

\* C4: an upload whose declared type is neither PDF nor plain text gets exactly the
\* unsupported-type message, with no request made and its bytes not read.
C4_UnsupportedTypeShortCircuits ==
    (pc = "done" /\ ~SupportedType(uploaded_file))
    => /\ result = Return(UNSUPPORTED_MESSAGE)
       /\ requests = <<>>
       /\ ~bytes_read

\* a PNG upload whose bytes would decode as text was answered without touching them
C4_Witness ==
    /\ pc = "done"
    /\ uploaded_file.type = "image/png"
    /\ uploaded_file.bytes.utf8_ok /\ uploaded_file.bytes.text # <<>>
    /\ result = Return(UNSUPPORTED_MESSAGE)
    /\ requests = <<>>

\* C8 as stated: an extracted text equal to the unsupported-type message is returned
\* with no request made; every other extracted text is sent once under the template.
C8_SentinelByText ==
    (pc = "done" /\ (~SupportedType(uploaded_file) \/ Extractable(uploaded_file)))
    => IF ~SupportedType(uploaded_file) \/ ExtractedText(uploaded_file) = UNSUPPORTED_MESSAGE
       THEN result = Return(UNSUPPORTED_MESSAGE) /\ requests = <<>>
       ELSE /\ requests = <<Request(SUMMARY_TEMPLATE \o ExtractedText(uploaded_file))>>
            /\ result = call_llama_api(requests[1].messages[1].content, net)

\* C8 amended: the unsupported-type message is returned with no request exactly when
\* the declared type is unsupported; every text extracted from a PDF or plain-text
\* upload, the empty text and a text equal to that message included, is sent once
\* under the template and the client's outcome is the pipeline's outcome.
C8_SentinelByType ==
    (pc = "done" /\ (~SupportedType(uploaded_file) \/ Extractable(uploaded_file)))
    => IF ~SupportedType(uploaded_file)
       THEN result = Return(UNSUPPORTED_MESSAGE) /\ requests = <<>>
       ELSE /\ requests = <<Request(SUMMARY_TEMPLATE \o ExtractedText(uploaded_file))>>
            /\ result = call_llama_api(requests[1].messages[1].content, net)

\* a plain-text document holding exactly the unsupported-type message was summarized
C8_Witness ==
    /\ pc = "done"
    /\ uploaded_file.type = "text/plain"
    /\ uploaded_file.bytes.utf8_ok
    /\ uploaded_file.bytes.text = UNSUPPORTED_MESSAGE
    /\ requests = <<Request(SUMMARY_TEMPLATE \o UNSUPPORTED_MESSAGE)>>
    /\ result = Return(<<"4">>)

\* ------------------------------------------------------------------ claims on load_keywords

\* C7: a keyword file that cannot be located or cannot be read makes no load raise;
\* its category gets the empty set and the error is reported.
C7_LoadNeverRaises ==
    result # NoResult =>
        /\ result.op = "return"
        /\ \A c \in Categories :
              (~keyword_files[c].exists \/ ~keyword_files[c].readable)
              => keywords[c] = {} /\ c \in st_errors

\* ------------------------------------------------------------------ claims on main

\* C9: every submit action issues at most one request, in the order of the actions;
\* a request is issued only when every earlier action's call chain has completed,
\* so never while a request is pending and never again after one has failed.
C9_OneRequestPerAction ==
    /\ [](\A i, j \in DOMAIN requests : i < j => requests[i].turn < requests[j].turn)
    /\ [](completed = IF pc = "awaiting" THEN turn - 1 ELSE turn)
    /\ [][requests' # requests =>
            /\ pc = "form"
            /\ completed = turn
            /\ Len(requests') = Len(requests) + 1
            /\ SubSeq(requests', 1, Len(requests)) = requests
            /\ requests'[Len(requests')].turn = turn + 1]_vars

\* two actions each made a request, the second failed, and its action is over
C9_Witness ==
    /\ pc = "start"
    /\ Len(requests) = 2
    /\ completed = 2
    /\ StartsWithApiError(result)

\* C10: after any sequence of submit actions, those that ended in a fault included,
\* the chat history is a sequence of (user, bot) pairs: its length is even and every
\* user message is followed by exactly one bot message.
C10_HistoryIsPairs ==
    pc # "awaiting" =>
        /\ Len(chat_history) % 2 = 0
        /\ \A i \in DOMAIN chat_history :
              chat_history[i].role = IF i % 2 = 1 THEN "user" ELSE "bot"

====
